---- MODULE Spec2Model ----
(***************************************************************************)
(* State-machine model of the DAV-MCP STDIO server (src/src/server-stdio.js):*)
(* the start() sequence, the tools/list and tools/call request handlers    *)
(* registered by createMCPServer(), and gracefulShutdown().                *)
(***************************************************************************)
EXTENDS Integers, Sequences, FiniteSets, TLC

\* ------------------------------------------------------------------ bounds
\* number of external inputs delivered in one run: inbound requests
\* (tools/list, tools/call) plus shutdown triggers (signals, faults)
MaxInputs == 2

\* ------------------------------------------------------- static catalogue
\* tools (./tools/index.js): the ordered registry imported at line 17
tools == <<"list_calendars", "list_todos", "create_event">>

\* inbound tools/call requests: params.name and params.arguments as sent
CallRequests ==
    [name : {"list_calendars", "create_event", "nonexistent_tool"},
     arguments : {"undefined", "{uid}"}]

\* values a tool handler may resolve to
ResultValues == {"r1"}

ShutdownSignals == {"SIGTERM", "SIGINT", "uncaughtException", "unhandledRejection"}

VARIABLES
    env,              \* process.env: credential sets present and AUTH_METHOD
    pc,               \* position of start(): start, awaitInit, postInit, awaitConnect, connected, exited
    tsdav,            \* tsdavManager: initialized flag, mode and what start() attempted
    transport,        \* global.transport: none, created, open, closed
    handlers,         \* process.on(...) shutdown handlers registered
    cleanupInterval,  \* global.cleanupInterval as gracefulShutdown found and left it:
                      \* none, active (not cancelled), cleared
    shutdowns,        \* gracefulShutdown() runs suspended at await transport.close()
    closeCalls,       \* number of transport.close() calls made
    triggers,         \* number of shutdown triggers delivered
    exits,            \* process.exit() calls, in order
    nextId,           \* number of request identifiers generated so far
    inflight,         \* tools/call invocations suspended at await tool.handler(args)
    events,           \* tool-call lifecycle events recorded by the tool-call logger
    responses,        \* completions of the tools/call handler, in order
    catalogues,       \* tools/list responses, in order
    warnings,         \* request ids for which "CalDAV client not initialized" was warned
    settled           \* what await tool.handler(args) produced, per request id

vars == <<env, pc, tsdav, transport, handlers, cleanupInterval, shutdowns, closeCalls,
          triggers, exits, nextId, inflight, events, responses, catalogues, warnings,
          settled>>

\* ------------------------------------------------------------- helpers
Range(s) == {s[i] : i \in 1..Len(s)}

\* variant of ToolList: lists only the tools usable without a remote session
ToolListNoAuthOnly(ts) ==
    SelectSeq(ts, LAMBDA t : t \in {"list_calendars", "list_addressbooks", "list_todos"})

\* tools.map(t => ({name, description, inputSchema})): the catalogue by name
ToolList(ts) == [i \in 1..Len(ts) |-> ts[i]]

\* tools.find(t => t.name === toolName)
FindTool(ts, toolName) == toolName \in Range(ts)

\* request.params.arguments || {}
NormArgs(a) == IF a = "undefined" THEN "{}" ELSE a

\* needsTsdav: every tool but the three no-auth list operations
NeedsTsdav(toolName) ==
    /\ toolName # "list_calendars"
    /\ toolName # "list_addressbooks"
    /\ toolName # "list_todos"


\* ------------------------------------------------------------ error values
\* A JavaScript value thrown by a tool handler or built by the dispatcher.
\* terms: the substrings of interest its message contains (message.includes);
\* hasMsg = FALSE: the value has no message property; nullish: null/undefined.
MkError(ts, txt, c) ==
    [nullish |-> FALSE, hasMsg |-> TRUE, terms |-> ts, text |-> txt, code |-> c]

NoError == [nullish |-> FALSE, hasMsg |-> FALSE, terms |-> {}, text |-> "none", code |-> "none"]

NoMessageError == [nullish |-> FALSE, hasMsg |-> FALSE, terms |-> {}, text |-> "raw", code |-> "none"]

NullishValue == [nullish |-> TRUE, hasMsg |-> FALSE, terms |-> {}, text |-> "raw", code |-> "none"]

\* values a tool handler may reject with once the remote session is in use
RaisedValues ==
    { MkError({"caldav", "401"}, "raw", "none"),
      MkError({"Unauthorized"}, "raw", "none"),
      MkError({}, "raw", "none"),
      NoMessageError,
      NullishValue }

\* error.message?.includes(term)
MessageIncludes(error, term) == error.hasMsg /\ term \in error.terms

\* variant of UnknownToolError: error.code is never assigned
UnknownToolErrorNoCode == MkError({}, "Unknown tool", "none")

\* new Error(`Unknown tool: ${toolName}`) with code METHOD_NOT_FOUND
UnknownToolError == MkError({}, "Unknown tool", "METHOD_NOT_FOUND")

\* TypeError raised by reading .message of null/undefined in the catch block
CatchTypeError == MkError({}, "TypeError", "none")

\* variant of CalDavNotConfigured: enhancedError.code is never assigned
CalDavNotConfiguredNoCode ==
    MkError({"CalDAV"}, "CalDAV connection not configured", "none")

CalDavNotConfigured ==
    MkError({"CalDAV"}, "CalDAV connection not configured", "CALDAV_ERROR")

AuthenticationFailed ==
    MkError({"CalDAV"}, "Authentication failed", "AUTH_ERROR")

\* variant of EnhanceError: the first rule tests the lower-case term only
EnhanceErrorLowercaseOnly(error) ==
    IF MessageIncludes(error, "caldav")
    THEN CalDavNotConfigured
    ELSE IF MessageIncludes(error, "Unauthorized") \/ MessageIncludes(error, "401")
    THEN AuthenticationFailed
    ELSE error

\* variant of EnhanceError: an error matching no rule is replaced by a new
\* generic error
EnhanceErrorWrapsUnmatched(error) ==
    IF MessageIncludes(error, "caldav") \/ MessageIncludes(error, "CalDAV")
    THEN CalDavNotConfigured
    ELSE IF MessageIncludes(error, "Unauthorized") \/ MessageIncludes(error, "401")
    THEN AuthenticationFailed
    ELSE MkError({}, "Internal error", "none")

\* variant of EnhanceError: the Unauthorized/401 rule is tested first
EnhanceErrorAuthFirst(error) ==
    IF MessageIncludes(error, "Unauthorized") \/ MessageIncludes(error, "401")
    THEN AuthenticationFailed
    ELSE IF MessageIncludes(error, "caldav") \/ MessageIncludes(error, "CalDAV")
    THEN CalDavNotConfigured
    ELSE error

\* enhancedError: the pattern rules of the catch block, in source order
EnhanceError(error) ==
    IF MessageIncludes(error, "caldav") \/ MessageIncludes(error, "CalDAV")
    THEN CalDavNotConfigured
    ELSE IF MessageIncludes(error, "Unauthorized") \/ MessageIncludes(error, "401")
    THEN AuthenticationFailed
    ELSE error

\* createToolErrorResponse (./error-handler.js): structured error built from
\* the enhanced error; an error without a taxonomy code is tagged INTERNAL
createToolErrorResponse(error) ==
    [code |-> IF error.code = "none" THEN "INTERNAL" ELSE error.code,
     text |-> error.text]

\* tsdavManager accessors (./tsdav-client.js) raise on use before initialize,
\* naming the remote protocol in the message
UseBeforeInitialize == MkError({"CalDAV"}, "raw", "none")

\* what awaiting tool.handler(args) can produce
HandlerOutcomes(toolName, initialized) ==
    IF initialized
    THEN [kind : {"return"}, value : ResultValues, error : {NoError}]
         \cup [kind : {"raise"}, value : {"none"}, error : RaisedValues]
    ELSE IF NeedsTsdav(toolName)
    THEN [kind : {"raise"}, value : {"none"}, error : {UseBeforeInitialize}]
    ELSE [kind : {"return"}, value : ResultValues, error : {NoError}]
         \cup [kind : {"raise"}, value : {"none"}, error : {UseBeforeInitialize}]

\* ------------------------------------------------------------ records
\* variant of Event: the request identifier is not passed in the context
EventWithoutRequestId(kind, c, result, error) ==
    [kind |-> kind, requestId |-> 0, tool |-> c.tool, args |-> c.args,
     transport |-> "stdio", result |-> result, error |-> error]

\* one lifecycle event as logToolCallStart/Success/Error record it
Event(kind, c, result, error) ==
    [kind |-> kind, requestId |-> c.id, tool |-> c.tool, args |-> c.args,
     transport |-> "stdio", result |-> result, error |-> error]

\* how one run of the tools/call handler ended: "returned" a payload
\* (result or structured error) or "thrown" an exception to its caller.
\* raw: the value the tool handler raised; error: the error thrown, or the
\* one the structured error was built from
Response(c, how, kind, code, value, raw, error) ==
    [requestId |-> c.id, tool |-> c.tool, args |-> c.args,
     how |-> how, kind |-> kind, code |-> code, value |-> value,
     raw |-> raw, error |-> error]

Exit(code, by, step, signal, closeRaised) ==
    [code |-> code, by |-> by, step |-> step, signal |-> signal,
     closeRaised |-> closeRaised]


\* ------------------------------------------------------------ initial state
Environments ==
    [basic : BOOLEAN, oauth : BOOLEAN, authMethod : {"Basic", "OAuth"}]

Init ==
    /\ env \in Environments
    /\ pc = "start"
    /\ tsdav = [initialized |-> FALSE, mode |-> "none", attempt |-> "none", failed |-> FALSE]
    /\ transport = "none"
    /\ handlers = FALSE
    /\ cleanupInterval = "none"
    /\ shutdowns = <<>>
    /\ closeCalls = 0
    /\ triggers = 0
    /\ exits = <<>>
    /\ nextId = 0
    /\ inflight = {}
    /\ events = <<>>
    /\ responses = <<>>
    /\ catalogues = <<>>
    /\ warnings = {}
    /\ settled = {}

\* ------------------------------------------------------------ start()
hasBasicAuth == env.basic
hasOAuth2 == env.oauth

\* initializeTsdav: the branch AUTH_METHOD selects
SelectedMode == IF env.authMethod = "OAuth" THEN "OAuth" ELSE "Basic"

\* initializeTsdav: the credentials the selected branch requires are present
SelectedModeConfigured == IF SelectedMode = "OAuth" THEN env.oauth ELSE env.basic

\* variant of StartupFailure: the catch of start() exits with code 0
StartupFailureExitsZero(step) ==
    /\ pc' = "exited"
    /\ exits' = Append(exits, Exit(0, "startup", step, "none", FALSE))

\* the catch of start(): log, process.exit(1)
StartupFailure(step) ==
    /\ pc' = "exited"
    /\ exits' = Append(exits, Exit(1, "startup", step, "none", FALSE))

\* variant of TsdavCatch: the inner catch rethrows to the catch of start()
TsdavCatchRethrows == "rethrow"

\* the inner catch around initializeTsdav(): log and continue ("swallow")
TsdavCatch == "swallow"

\* an error raised by initializeTsdav() reaches the inner catch of start()
TsdavInitFailed(mode) ==
    /\ tsdav' = [initialized |-> FALSE, mode |-> "none", attempt |-> mode, failed |-> TRUE]
    /\ IF TsdavCatch = "swallow"
       THEN pc' = "postInit" /\ UNCHANGED exits
       ELSE StartupFailure("initializeTsdav")

\* start(): credential detection up to the first suspension or the end of the
\* inner try
StartDetect ==
    /\ pc = "start"
    /\ IF hasBasicAuth \/ hasOAuth2
       THEN IF SelectedModeConfigured
            THEN /\ pc' = "awaitInit"
                 /\ tsdav' = [tsdav EXCEPT !.attempt = SelectedMode]
                 /\ UNCHANGED exits
            ELSE TsdavInitFailed(SelectedMode)
       ELSE /\ pc' = "postInit"
            /\ tsdav' = [tsdav EXCEPT !.attempt = "skipped"]
            /\ UNCHANGED exits
    /\ UNCHANGED <<env, transport, handlers, cleanupInterval, shutdowns, closeCalls,
                   triggers, nextId, inflight, events, responses, catalogues, warnings, settled>>

\* await tsdavManager.initialize(...) settles
TsdavInitSettles(ok) ==
    /\ pc = "awaitInit"
    /\ IF ok
       THEN /\ tsdav' = [initialized |-> TRUE, mode |-> tsdav.attempt,
                         attempt |-> tsdav.attempt, failed |-> FALSE]
            /\ pc' = "postInit"
            /\ UNCHANGED exits
       ELSE TsdavInitFailed(tsdav.attempt)
    /\ UNCHANGED <<env, transport, handlers, cleanupInterval, shutdowns, closeCalls,
                   triggers, nextId, inflight, events, responses, catalogues, warnings, settled>>

\* start(): initializeToolCallLogger, createMCPServer, new StdioServerTransport,
\* global.transport = transport, up to await mcpServer.connect(transport)
StartSetup(failing) ==
    /\ pc = "postInit"
    /\ IF failing = "none"
       THEN /\ transport' = "created"
            /\ pc' = "awaitConnect"
            /\ UNCHANGED exits
       ELSE /\ StartupFailure(failing)
            /\ UNCHANGED transport
    /\ UNCHANGED <<env, tsdav, handlers, cleanupInterval, shutdowns, closeCalls,
                   triggers, nextId, inflight, events, responses, catalogues, warnings, settled>>

\* await mcpServer.connect(transport) settles; on success the shutdown
\* handlers are registered in the same synchronous continuation
ConnectSettles(ok) ==
    /\ pc = "awaitConnect"
    /\ IF ok
       THEN /\ transport' = "open"
            /\ handlers' = TRUE
            /\ pc' = "connected"
            /\ UNCHANGED exits
       ELSE /\ StartupFailure("connect")
            /\ UNCHANGED <<transport, handlers>>
    /\ UNCHANGED <<env, tsdav, cleanupInterval, shutdowns, closeCalls,
                   triggers, nextId, inflight, events, responses, catalogues, warnings, settled>>

\* faults the runtime may raise at top level
FaultKinds == {"uncaughtException", "unhandledRejection"}

\* an uncaught exception or unhandled rejection while start() is suspended at
\* an await and process.on(...) has not run yet: no handler is registered, so
\* the runtime terminates the process (exit code 1) and nothing of
\* gracefulShutdown runs
UnhandledFault(kind) ==
    /\ pc \in {"awaitInit", "awaitConnect"}
    /\ ~handlers
    /\ pc' = "exited"
    /\ exits' = Append(exits, Exit(1, "crash", "none", kind, FALSE))
    /\ UNCHANGED <<env, tsdav, transport, handlers, cleanupInterval, shutdowns, closeCalls,
                   triggers, nextId, inflight, events, responses, catalogues, warnings,
                   settled>>

\* ------------------------------------------------------------ tools/list
\* variant of Accepting: the transport is attached before the remote session
\* has finished initializing
AcceptingDuringStartup == pc \in {"awaitInit", "connected"} /\ transport # "closed"

\* variant of Accepting: requests are still read after transport.close()
AcceptingAfterClose == pc = "connected"

\* the transport delivers inbound requests: connected by mcpServer.connect and
\* not yet closed by global.transport.close()
Accepting == pc = "connected" /\ transport = "open"

\* the tools/list handler
ListTools ==
    /\ Accepting
    /\ nextId + triggers < MaxInputs
    /\ nextId' = nextId + 1
    /\ catalogues' = Append(catalogues, ToolList(tools))
    /\ UNCHANGED <<env, pc, tsdav, transport, handlers, cleanupInterval, shutdowns,
                   closeCalls, triggers, exits, inflight, events, responses, warnings,
                   settled>>

\* ------------------------------------------------------------ tools/call
\* variant of PreconditionWarns: the probe runs for every tool
PreconditionWarnsEveryTool(toolName) == ~tsdav.initialized

\* the precondition probe: tsdavManager.getCalDavClient() throws, is caught,
\* and only a warning is emitted
PreconditionWarns(toolName) == NeedsTsdav(toolName) /\ ~tsdav.initialized

\* variant of NewRequestId: the identifier is generated once, outside the
\* handler
NewRequestIdShared(n) == 1

\* const requestId = crypto.randomUUID(): an identifier no earlier request
\* had, n being the number generated so far
NewRequestId(n) == n + 1

\* variant of CallToolBegin: logToolCallStart and the precondition probe run
\* before the tool is looked up
CallToolBeginLogsFirst(toolName, rawArgs) ==
    /\ Accepting
    /\ nextId + triggers < MaxInputs
    /\ nextId' = nextId + 1
    /\ LET c == [id |-> NewRequestId(nextId), tool |-> toolName,
                 args |-> NormArgs(rawArgs)]
       IN /\ events' = Append(events, Event("start", c, "none", NoError))
          /\ warnings' = IF PreconditionWarns(toolName)
                         THEN warnings \cup {c.id} ELSE warnings
          /\ IF ~FindTool(tools, toolName)
             THEN /\ responses' = Append(responses,
                         Response(c, "thrown", "error", UnknownToolError.code, "none",
                                  NoError, UnknownToolError))
                  /\ UNCHANGED inflight
             ELSE /\ inflight' = inflight \cup {c}
                  /\ UNCHANGED responses
    /\ UNCHANGED <<env, pc, tsdav, transport, handlers, cleanupInterval, shutdowns,
                   closeCalls, triggers, exits, catalogues, settled>>

\* tools/call handler from entry to await tool.handler(args), or to the throw
\* of the tool-not-found branch
CallToolBegin(toolName, rawArgs) ==
    /\ Accepting
    /\ nextId + triggers < MaxInputs
    /\ nextId' = nextId + 1
    /\ LET c == [id |-> NewRequestId(nextId), tool |-> toolName,
                 args |-> NormArgs(rawArgs)]
       IN IF ~FindTool(tools, toolName)
          THEN /\ responses' = Append(responses,
                      Response(c, "thrown", "error", UnknownToolError.code, "none",
                               NoError, UnknownToolError))
               /\ UNCHANGED <<events, inflight, warnings>>
          ELSE /\ events' = Append(events, Event("start", c, "none", NoError))
               /\ warnings' = IF PreconditionWarns(toolName)
                              THEN warnings \cup {c.id} ELSE warnings
               /\ inflight' = inflight \cup {c}
               /\ UNCHANGED responses
    /\ UNCHANGED <<env, pc, tsdav, transport, handlers, cleanupInterval, shutdowns,
                   closeCalls, triggers, exits, catalogues, settled>>

\* variant of CatchBlock: the catch block logs the failure and rethrows the
\* enhanced error instead of returning a structured error
CatchBlockRethrows(c, error) ==
    IF error.nullish
    THEN /\ responses' = Append(responses,
                Response(c, "thrown", "error", CatchTypeError.code, "none",
                         error, CatchTypeError))
         /\ UNCHANGED events
    ELSE LET enhancedError == EnhanceError(error)
         IN /\ events' = Append(events, Event("failure", c, "none", enhancedError))
            /\ responses' = Append(responses,
                   Response(c, "thrown", "error", enhancedError.code, "none",
                            error, enhancedError))

\* variant of CatchBlock: the failure event is logged with the raised error,
\* the response is built from the enhanced one
CatchBlockLogsRawError(c, error) ==
    IF error.nullish
    THEN /\ responses' = Append(responses,
                Response(c, "thrown", "error", CatchTypeError.code, "none",
                         error, CatchTypeError))
         /\ UNCHANGED events
    ELSE LET enhancedError == EnhanceError(error)
         IN /\ events' = Append(events, Event("failure", c, "none", error))
            /\ responses' = Append(responses,
                   Response(c, "returned", "error",
                            createToolErrorResponse(enhancedError).code, "none",
                            error, enhancedError))

\* the catch block of the tools/call handler for a raised value
CatchBlock(c, error) ==
    IF error.nullish
    THEN \* error.message of null/undefined: TypeError leaves the handler
         /\ responses' = Append(responses,
                Response(c, "thrown", "error", CatchTypeError.code, "none",
                         error, CatchTypeError))
         /\ UNCHANGED events
    ELSE LET enhancedError == EnhanceError(error)
         IN /\ events' = Append(events, Event("failure", c, "none", enhancedError))
            /\ responses' = Append(responses,
                   Response(c, "returned", "error",
                            createToolErrorResponse(enhancedError).code, "none",
                            error, enhancedError))

\* variant of SuccessPath: the result is wrapped in a new payload before it
\* is returned
SuccessPathWrapsResult(c, result) ==
    /\ events' = Append(events, Event("success", c, result, NoError))
    /\ responses' = Append(responses,
           Response(c, "returned", "result", "none", <<"content", result>>,
                    NoError, NoError))

\* the try block after await tool.handler(args): logToolCallSuccess with the
\* result, then return result
SuccessPath(c, result) ==
    /\ events' = Append(events, Event("success", c, result, NoError))
    /\ responses' = Append(responses,
           Response(c, "returned", "result", "none", result, NoError, NoError))

\* await tool.handler(args) settles and the handler runs to its end
CallToolSettles(c, outcome) ==
    /\ pc = "connected"
    /\ c \in inflight
    /\ outcome \in HandlerOutcomes(c.tool, tsdav.initialized)
    /\ inflight' = inflight \ {c}
    /\ settled' = settled \cup {[id |-> c.id, outcome |-> outcome]}
    /\ IF outcome.kind = "return"
       THEN SuccessPath(c, outcome.value)
       ELSE CatchBlock(c, outcome.error)
    /\ UNCHANGED <<env, pc, tsdav, transport, handlers, cleanupInterval, shutdowns,
                   closeCalls, triggers, exits, nextId, catalogues, warnings>>

\* ------------------------------------------------------------ gracefulShutdown
\* a registered handler calls gracefulShutdown(signal): runs to
\* await global.transport.close()
ShutdownTrigger(signal) ==
    /\ handlers
    /\ pc = "connected"
    /\ nextId + triggers < MaxInputs
    /\ triggers' = triggers + 1
    /\ closeCalls' = closeCalls + 1
    /\ transport' = "closed"
    /\ shutdowns' = Append(shutdowns, [signal |-> signal, idle |-> inflight = {}])
    /\ UNCHANGED <<env, pc, tsdav, handlers, cleanupInterval, exits, nextId,
                   inflight, events, responses, catalogues, warnings, settled>>

\* variant of ShutdownExitCode: the catch of gracefulShutdown exits with 0
ShutdownExitCodeAlwaysZero(closeRaised) == 0

\* variant of ShutdownExitCode: the two exit codes are exchanged
ShutdownExitCodeSwapped(closeRaised) == IF closeRaised THEN 0 ELSE 1

\* process.exit code of one gracefulShutdown run
ShutdownExitCode(closeRaised) == IF closeRaised THEN 1 ELSE 0

\* the periodic task a gracefulShutdown run may find in global.cleanupInterval
\* (server-stdio.js never assigns it; another module of the process may)
IntervalsFound == {"none", "active"}

\* what a gracefulShutdown run leaves of the interval it found: clearInterval
\* is reached only when the close did not raise
IntervalAfterShutdown(found, closeRaised) ==
    IF found = "active" /\ ~closeRaised THEN "cleared" ELSE found

\* await global.transport.close() settles for one suspended run: on success
\* clearInterval and process.exit(0), on an error process.exit(1)
ShutdownResumes(i, closeRaised) ==
    /\ pc = "connected"
    /\ i \in DOMAIN shutdowns
    /\ \E found \in IntervalsFound :
          cleanupInterval' = IntervalAfterShutdown(found, closeRaised)
    /\ exits' = Append(exits, Exit(ShutdownExitCode(closeRaised), "shutdown", "none",
                                   shutdowns[i].signal, closeRaised))
    /\ pc' = "exited"
    /\ UNCHANGED <<env, tsdav, transport, handlers, shutdowns, closeCalls, triggers,
                   nextId, inflight, events, responses, catalogues, warnings, settled>>

\* ------------------------------------------------------------ specification
Next ==
    \/ StartDetect
    \/ \E ok \in BOOLEAN : TsdavInitSettles(ok)
    \/ \E failing \in {"none", "logger", "server", "transport"} : StartSetup(failing)
    \/ \E ok \in BOOLEAN : ConnectSettles(ok)
    \/ \E kind \in FaultKinds : UnhandledFault(kind)
    \/ ListTools
    \/ \E q \in CallRequests : CallToolBegin(q.name, q.arguments)
    \/ \E c \in inflight : \E o \in HandlerOutcomes(c.tool, tsdav.initialized) :
           CallToolSettles(c, o)
    \/ \E s \in ShutdownSignals : ShutdownTrigger(s)
    \/ \E i \in DOMAIN shutdowns, r \in BOOLEAN : ShutdownResumes(i, r)

Spec == Init /\ [][Next]_vars

\* the await of transport.close() settles: the event loop runs the continuation
FairSpec == Spec /\ WF_vars(\E i \in DOMAIN shutdowns, r \in BOOLEAN : ShutdownResumes(i, r))


\* ------------------------------------------------------------ properties
\* the statically registered catalogue, by name
Registered(toolName) == \E k \in 1..Len(tools) : tools[k] = toolName

\* positions in the event log of the events of one request
EventsOf(requestId, kinds) ==
    {k \in 1..Len(events) : events[k].requestId = requestId /\ events[k].kind \in kinds}

NoCredentials == ~env.basic /\ ~env.oauth

\* C1: every tools/call naming an unregistered tool ends in an error carrying
\* METHOD_NOT_FOUND, and no lifecycle "start" event is recorded for it (nor is
\* the request ever suspended on a handler).
C1_UnknownToolMethodNotFound ==
    /\ \A i \in 1..Len(responses) :
          ~Registered(responses[i].tool) =>
              /\ responses[i].kind = "error"
              /\ responses[i].code = "METHOD_NOT_FOUND"
              /\ EventsOf(responses[i].requestId, {"start"}) = {}
    /\ \A k \in 1..Len(events) : Registered(events[k].tool)
    /\ \A c \in inflight : Registered(c.tool)

C1_Witness ==
    \E i \in 1..Len(responses) :
        /\ responses[i].tool = "nonexistent_tool"
        /\ responses[i].code = "METHOD_NOT_FOUND"

\* C2: every completed tools/call of a registered tool has exactly one "start"
\* event and exactly one terminal ("success" or "failure") event, the start
\* before the terminal one, both with the tool name and arguments of the call.
C2_ExactlyOneStartAndTerminal ==
    \A i \in 1..Len(responses) :
        Registered(responses[i].tool) =>
            LET starts == EventsOf(responses[i].requestId, {"start"})
                terminals == EventsOf(responses[i].requestId, {"success", "failure"})
            IN /\ Cardinality(starts) = 1
               /\ Cardinality(terminals) = 1
               /\ \A a \in starts, b \in terminals : a < b
               /\ \A k \in starts \cup terminals :
                     /\ events[k].tool = responses[i].tool
                     /\ events[k].args = responses[i].args

\* C3 as claimed: the tools/call handler always completes by returning a
\* response object, never by throwing.
C3_NeverThrows ==
    \A i \in 1..Len(responses) : responses[i].how = "returned"

\* C3 as amended: the handler returns a response object (the result, or a
\* structured error built from the enhanced error) whenever the tool is
\* registered and its handler returns or raises a non-nullish value; it throws
\* exactly for an unregistered tool (METHOD_NOT_FOUND) and when the handler
\* raises null/undefined (TypeError from the catch block).
C3_ThrowsOnlyUnknownOrNullish ==
    \A i \in 1..Len(responses) :
        LET r == responses[i]
        IN /\ r.how \in {"returned", "thrown"}
           /\ r.how = "thrown" <=> (~Registered(r.tool) \/ r.raw.nullish)
           /\ ~Registered(r.tool) => r.error = UnknownToolError
           /\ (Registered(r.tool) /\ r.raw.nullish) => r.error = CatchTypeError
           /\ r.how = "returned" =>
                 \/ r.kind = "result" /\ r.raw = NoError
                 \/ /\ r.kind = "error"
                    /\ r.code \in {"CALDAV_ERROR", "AUTH_ERROR", "INTERNAL"}

C3_Witness ==
    \E i \in 1..Len(responses) :
        /\ responses[i].how = "returned"
        /\ responses[i].kind = "error"
        /\ responses[i].raw # NoError
        /\ responses[i].code = "INTERNAL"

\* C4: a second shutdown trigger while a shutdown is in progress has no
\* effect: the transport is closed at most once and process exit is requested
\* at most once.
C4_ShutdownIdempotent ==
    /\ closeCalls <= 1
    /\ Len(shutdowns) <= 1
    /\ Len(exits) <= 1

\* C5: a shutdown run that ends the process exits with code 0 when the
\* transport release raised no error and with code 1 when it raised, for
\* every trigger kind; and the process is then terminated.
C5_ShutdownExitCode ==
    \A i \in 1..Len(exits) :
        exits[i].by = "shutdown" =>
            /\ exits[i].signal \in ShutdownSignals
            /\ ~exits[i].closeRaised => exits[i].code = 0
            /\ exits[i].closeRaised => exits[i].code = 1
            /\ pc = "exited"

C5_Witness ==
    \E i \in 1..Len(exits) :
        /\ exits[i].by = "shutdown"
        /\ exits[i].signal = "unhandledRejection"
        /\ exits[i].closeRaised
        /\ exits[i].code = 1


\* the remote session was not initialized because start() found no
\* credentials or because initializeTsdav() raised
SoftStartCase == NoCredentials \/ tsdav.failed

C8_ToolsListStable ==
    /\ \A i \in 1..Len(catalogues) :
          /\ Len(catalogues[i]) = Len(tools)
          /\ \A k \in 1..Len(tools) : catalogues[i][k] = tools[k]
    /\ \A i, j \in 1..Len(catalogues) : catalogues[i] = catalogues[j]

C8_Witness ==
    /\ Len(catalogues) >= 1
    /\ Len(responses) >= 1
    /\ responses[1].kind = "error"
    /\ responses[1].requestId < nextId

\* a termination signal was delivered while no tool call was in flight
SignalWhileIdle ==
    /\ pc = "connected"
    /\ \E i \in 1..Len(shutdowns) :
          /\ shutdowns[i].signal \in {"SIGTERM", "SIGINT"}
          /\ shutdowns[i].idle

\* the process has terminated with the transport released, with exit code 0
\* unless the release raised
ReleasedAndExited ==
    /\ pc = "exited"
    /\ transport = "closed"
    /\ Len(exits) = 1
    /\ exits[1].by = "shutdown"
    /\ (exits[1].code = 0 \/ exits[1].closeRaised)

\* C9: a SIGTERM/SIGINT delivered while connected and idle leads to the
\* transport being released and the process terminating, with exit code 0
\* when the transport close completed without raising.
C9_SignalWhileIdleExitsZero == SignalWhileIdle ~> ReleasedAndExited

C9_Witness ==
    /\ pc = "exited"
    /\ transport = "closed"
    /\ events = <<>>
    /\ Len(exits) = 1
    /\ exits[1].signal = "SIGINT"
    /\ exits[1].code = 0

\* a step of a tools/call of list_calendars: its begin or its settling
ListCalendarsStep ==
    \/ \E c \in inflight' \ inflight : c.tool = "list_calendars"
    \/ \E c \in inflight \ inflight' : c.tool = "list_calendars"

\* C10: with no credentials, a tools/call of list_calendars returns either a
\* result or a structured error with a configuration/authentication code, and
\* no step of the call changes the process state: no exit, no shutdown run,
\* no transport change.
C10_ListCalendarsNoCrash ==
    /\ [](NoCredentials =>
            \A i \in 1..Len(responses) :
                responses[i].tool = "list_calendars" =>
                    /\ responses[i].how = "returned"
                    /\ \/ responses[i].kind = "result"
                       \/ /\ responses[i].kind = "error"
                          /\ responses[i].code \in {"CALDAV_ERROR", "AUTH_ERROR"})
    /\ [][(NoCredentials /\ ListCalendarsStep) =>
            /\ pc = "connected"
            /\ UNCHANGED <<pc, exits, shutdowns, triggers, closeCalls, transport,
                           handlers, tsdav>>]_vars

C10_Witness ==
    /\ NoCredentials
    /\ pc = "connected"
    /\ \E i \in 1..Len(responses) :
          /\ responses[i].tool = "list_calendars"
          /\ responses[i].kind = "error"
          /\ responses[i].code = "CALDAV_ERROR"

\* the terminal lifecycle events
Terminal == {"success", "failure"}

OutcomesOf(requestId) == {x.outcome : x \in {y \in settled : y.id = requestId}}

\* number of invocations of the tool handler made for one request
Invocations(requestId) ==
    Cardinality({c \in inflight : c.id = requestId}) + Cardinality(OutcomesOf(requestId))

\* C12: every tools/call of a registered tool invokes the tool handler exactly
\* once whatever the remote-session state; the warning is emitted exactly for
\* the calls of a tool other than list_calendars, list_addressbooks,
\* list_todos made while the remote session is uninitialized; and the
\* completion of a call is determined by what the handler produced alone, so
\* a warned and an unwarned call with the same handler outcome end alike.
C12_PreconditionAdvisory ==
    /\ \A k \in 1..Len(events) :
          events[k].kind = "start" =>
              /\ Invocations(events[k].requestId) = 1
              /\ events[k].requestId \in warnings <=>
                    /\ events[k].tool \notin {"list_calendars", "list_addressbooks",
                                              "list_todos"}
                    /\ ~tsdav.initialized
    /\ \A id \in warnings : EventsOf(id, {"start"}) # {}
    /\ \A i \in 1..Len(responses) : \A j \in 1..(i - 1) :
          (/\ Registered(responses[i].tool)
           /\ Registered(responses[j].tool)
           /\ OutcomesOf(responses[i].requestId) = OutcomesOf(responses[j].requestId)) =>
              /\ responses[i].how = responses[j].how
              /\ responses[i].kind = responses[j].kind
              /\ responses[i].code = responses[j].code
              /\ responses[i].value = responses[j].value
              /\ responses[i].error = responses[j].error

\* a warned call and an unwarned call, both run with the remote session
\* uninitialized, whose handlers produced the same outcome
C12_Witness ==
    /\ ~tsdav.initialized
    /\ \E i, j \in 1..Len(responses) :
          /\ responses[i].tool = "create_event"
          /\ responses[i].requestId \in warnings
          /\ responses[j].tool = "list_calendars"
          /\ responses[j].requestId \notin warnings
          /\ OutcomesOf(responses[i].requestId) = OutcomesOf(responses[j].requestId)
          /\ Invocations(responses[i].requestId) = 1

\* the value the tool handler of a completed call raised, from the handler's
\* side (no value for a call whose handler returned)
RaisedBy(requestId) ==
    {o.error : o \in {x \in OutcomesOf(requestId) : x.kind = "raise"}}

\* error messages by the terms of the two rules they contain
Messages ==
    {MkError(ts, "raw", "none") : ts \in SUBSET {"caldav", "CalDAV", "Unauthorized", "401"}}

MentionsRemoteProtocol(error) ==
    MessageIncludes(error, "caldav") \/ MessageIncludes(error, "CalDAV")

MentionsUnauthorized(error) ==
    MessageIncludes(error, "Unauthorized") \/ MessageIncludes(error, "401")

\* C13: the remote-protocol rule has priority: a raised error whose message
\* mentions caldav/CalDAV is replaced by the templated configuration error
\* with the remote-not-configured code (CALDAV_ERROR), also when the message
\* mentions Unauthorized/401; a raised error whose message mentions
\* Unauthorized/401 and neither caldav nor CalDAV is replaced by the templated
\* credential-check error with the authentication code (AUTH_ERROR). This
\* holds of the translation of every message (a fact independent of the
\* state, evaluated once per run, at the start) and of every completed call.
C13_TranslationPriority ==
    /\ pc = "start" =>
          \A e \in Messages :
              /\ MentionsRemoteProtocol(e) => EnhanceError(e) = CalDavNotConfigured
              /\ (MentionsUnauthorized(e) /\ ~MentionsRemoteProtocol(e)) =>
                    EnhanceError(e) = AuthenticationFailed
    /\ CalDavNotConfigured.code = "CALDAV_ERROR"
    /\ AuthenticationFailed.code = "AUTH_ERROR"
    /\ CalDavNotConfigured.text # AuthenticationFailed.text
    /\ \A i \in 1..Len(responses) : \A e \in RaisedBy(responses[i].requestId) :
          /\ MentionsRemoteProtocol(e) =>
                /\ responses[i].error = CalDavNotConfigured
                /\ responses[i].error.code = "CALDAV_ERROR"
          /\ (MentionsUnauthorized(e) /\ ~MentionsRemoteProtocol(e)) =>
                /\ responses[i].error = AuthenticationFailed
                /\ responses[i].error.code = "AUTH_ERROR"

\* one call failed with a message naming both caldav and 401, another with a
\* message naming Unauthorized only
C13_Witness ==
    \E i, j \in 1..Len(responses) :
        /\ RaisedBy(responses[i].requestId) = {MkError({"caldav", "401"}, "raw", "none")}
        /\ responses[i].error.code = "CALDAV_ERROR"
        /\ RaisedBy(responses[j].requestId) = {MkError({"Unauthorized"}, "raw", "none")}
        /\ responses[j].error.code = "AUTH_ERROR"

\* a raised Error (not null/undefined) whose message matches neither rule
MatchesNoRule(error) ==
    /\ ~error.nullish
    /\ ~MentionsRemoteProtocol(error)
    /\ ~MentionsUnauthorized(error)

\* C14: an error raised by a tool handler whose message matches neither the
\* caldav/CalDAV rule nor the Unauthorized/401 rule is the enhanced error
\* itself (same error, same message): it is the error of the "failure" event
\* and the error the structured response is built from, and the response
\* carries the code INTERNAL.
C14_PassThroughInternal ==
    /\ pc = "start" =>
          \A e \in Messages \cup {NoMessageError} :
              MatchesNoRule(e) => EnhanceError(e) = e
    /\ \A i \in 1..Len(responses) : \A e \in RaisedBy(responses[i].requestId) :
          MatchesNoRule(e) =>
              /\ responses[i].how = "returned"
              /\ responses[i].kind = "error"
              /\ responses[i].error = e
              /\ responses[i].error.text = e.text
              /\ responses[i].code = "INTERNAL"
              /\ \A k \in EventsOf(responses[i].requestId, {"failure"}) :
                    events[k].error = e

\* a call failed with an error matching no rule and was answered INTERNAL
C14_Witness ==
    \E i \in 1..Len(responses) :
        /\ RaisedBy(responses[i].requestId) = {MkError({}, "raw", "none")}
        /\ responses[i].error = MkError({}, "raw", "none")
        /\ responses[i].code = "INTERNAL"
        /\ EventsOf(responses[i].requestId, {"failure"}) # {}

\* C15: whatever value the tool handler raised (an Error with a message, an
\* Error without one, null or undefined), the failure path completes: the
\* "failure" event is recorded and the call returns a structured error built
\* from an enhanced error, never throwing out of the catch block.
C15_FailurePathNeverRaises ==
    \A i \in 1..Len(responses) :
        RaisedBy(responses[i].requestId) # {} =>
            /\ responses[i].how = "returned"
            /\ responses[i].kind = "error"
            /\ responses[i].error # CatchTypeError
            /\ EventsOf(responses[i].requestId, {"failure"}) # {}

\* C16: when the handler of a registered tool returned a value, the call
\* returns exactly that value as its result payload, and its one "success"
\* event records the same value.
C16_ResultUnmodified ==
    \A i \in 1..Len(responses) : \A o \in OutcomesOf(responses[i].requestId) :
        o.kind = "return" =>
            /\ responses[i].how = "returned"
            /\ responses[i].kind = "result"
            /\ responses[i].value = o.value
            /\ Cardinality(EventsOf(responses[i].requestId, {"success"})) = 1
            /\ \A k \in EventsOf(responses[i].requestId, {"success"}) :
                  events[k].result = o.value

\* a call whose handler returned a value has completed
C16_Witness ==
    \E i \in 1..Len(responses) : \E o \in OutcomesOf(responses[i].requestId) :
        /\ o.kind = "return"
        /\ o.value \in ResultValues
        /\ responses[i].value = o.value
        /\ \E k \in 1..Len(events) :
              /\ events[k].kind = "success"
              /\ events[k].requestId = responses[i].requestId
              /\ events[k].result = o.value

\* C17: for every call whose handler raised and whose failure path produced
\* its outputs, the one "failure" event and the structured error response
\* carry the same error, the enhanced error of the raised value; when a
\* translation rule matched the raised value, that error is the rule's
\* templated error and not the raw one. A "failure" event is never recorded
\* without such a response.
C17_SameEnhancedError ==
    /\ \A i \in 1..Len(responses) :
          (responses[i].how = "returned" /\ responses[i].kind = "error") =>
              /\ Cardinality(EventsOf(responses[i].requestId, {"failure"})) = 1
              /\ \A k \in EventsOf(responses[i].requestId, {"failure"}) :
                    events[k].error = responses[i].error
              /\ \A e \in RaisedBy(responses[i].requestId) :
                    /\ responses[i].error = EnhanceError(e)
                    /\ (MentionsRemoteProtocol(e) \/ MentionsUnauthorized(e)) =>
                          /\ responses[i].error # e
                          /\ responses[i].error \in {CalDavNotConfigured,
                                                     AuthenticationFailed}
    /\ \A k \in 1..Len(events) :
          events[k].kind = "failure" =>
              \E i \in 1..Len(responses) :
                  /\ responses[i].requestId = events[k].requestId
                  /\ responses[i].how = "returned"
                  /\ responses[i].error = events[k].error

\* a call failed with a message a rule matches: event and response both
\* carry the templated error
C17_Witness ==
    \E i \in 1..Len(responses) : \E k \in 1..Len(events) :
        /\ RaisedBy(responses[i].requestId) = {MkError({"Unauthorized"}, "raw", "none")}
        /\ events[k].kind = "failure"
        /\ events[k].requestId = responses[i].requestId
        /\ events[k].error = AuthenticationFailed
        /\ responses[i].error = AuthenticationFailed

\* the process state of the lifecycle: starting, connected, shutting-down
\* (a gracefulShutdown run has begun), terminated (process.exit was called)
ProcessState ==
    IF pc = "exited" THEN "terminated"
    ELSE IF pc = "connected" /\ triggers > 0 THEN "shutting-down"
    ELSE IF pc = "connected" THEN "connected"
    ELSE "starting"

\* position of a process state in the lifecycle order
StateRank(state) ==
    CASE state = "starting" -> 0
      [] state = "connected" -> 1
      [] state = "shutting-down" -> 2
      [] state = "terminated" -> 3

\* a step that accepts a request (tools/list or tools/call)
AcceptsRequest == nextId' # nextId

\* a step that carries a request forward: accepts it, or completes it and
\* records its event and response
HandlesRequest ==
    \/ AcceptsRequest
    \/ inflight' # inflight
    \/ events' # events
    \/ responses' # responses
    \/ catalogues' # catalogues

\* C18 as claimed: every step keeps or advances the process state in the
\* order starting, connected, shutting-down, terminated; every step that
\* handles a request is taken in the connected state; and no step from the
\* terminated state processes a request or records an event.
C18_OnlyConnectedHandles ==
    [][/\ StateRank(ProcessState') >= StateRank(ProcessState)
       /\ HandlesRequest => ProcessState = "connected"
       /\ ProcessState = "terminated" => ~HandlesRequest]_vars

\* C18 as amended: every step keeps or advances the process state in the
\* order starting, connected, shutting-down, terminated; requests are
\* accepted only in the connected state; a call already in flight when the
\* shutdown begins may still complete, and record its terminal event, in the
\* shutting-down state; no step from the terminated state processes a
\* request or records an event.
C18_StateOrder ==
    [][/\ StateRank(ProcessState') >= StateRank(ProcessState)
       /\ AcceptsRequest => (ProcessState = "connected" /\ ProcessState' = "connected")
       /\ HandlesRequest => ProcessState \in {"connected", "shutting-down"}
       /\ ProcessState = "terminated" => (~HandlesRequest /\ UNCHANGED <<pc, exits>>)]_vars

\* a call was in flight when the shutdown began and has completed since,
\* before the process terminated
C18_Witness ==
    /\ ProcessState = "shutting-down"
    /\ \E i \in 1..Len(shutdowns) : ~shutdowns[i].idle
    /\ inflight = {}
    /\ \E k \in 1..Len(events) : events[k].kind \in Terminal

\* C19: for every process exit caused by an uncaught exception or an
\* unhandled rejection, in whatever position of start() it occurred, a
\* transport that had been created has been released (transport.close()
\* called) by the time the process has exited.
C19_FaultReleasesTransport ==
    \A i \in 1..Len(exits) :
        (exits[i].signal \in FaultKinds /\ transport # "none") =>
            (transport = "closed" /\ closeCalls >= 1)

\* C20: a failure of tool-call logger initialization, of server creation, of
\* transport creation or of the transport connect ends the process with exit
\* code 1, and the process was never connected: the shutdown handlers were
\* never registered, the transport never opened, no request ever accepted.
C20_StartupFailureExitsOne ==
    \A i \in 1..Len(exits) :
        exits[i].by = "startup" =>
            /\ exits[i].step \in {"logger", "server", "transport", "connect"}
            /\ exits[i].code = 1
            /\ Len(exits) = 1
            /\ ProcessState = "terminated"
            /\ ~handlers
            /\ transport \in {"none", "created"}
            /\ exits[i].step = "connect" <=> transport = "created"
            /\ nextId = 0
            /\ shutdowns = <<>>

\* the transport connect failed and the process exited with code 1
C20_Witness ==
    /\ pc = "exited"
    /\ Len(exits) = 1
    /\ exits[1].by = "startup"
    /\ exits[1].step = "connect"
    /\ exits[1].code = 1
    /\ ~handlers

\* C21: every gracefulShutdown run that has reached process.exit has released
\* the transport and cancelled the periodic task it found, in the runs whose
\* transport release raised as in the others: no periodic task is left
\* active at exit.
C21_ShutdownReleasesBoth ==
    \A i \in 1..Len(exits) :
        exits[i].by = "shutdown" =>
            /\ transport = "closed"
            /\ closeCalls >= 1
            /\ cleanupInterval # "active"

\* C22: while the process is connected (no shutdown begun, not terminated),
\* every tools/call that recorded its start event is still in flight or has
\* recorded its terminal event: no call is dropped individually.
C22_NoCallLeftWithoutTerminal ==
    ProcessState = "connected" =>
        \A k \in 1..Len(events) :
            events[k].kind = "start" =>
                \/ \E c \in inflight : c.id = events[k].requestId
                \/ EventsOf(events[k].requestId, Terminal) # {}

\* C23: no step of a tools/list or tools/call execution (accepting it,
\* completing it with a result, an error or the unknown-tool throw) changes
\* the remote-session state; the remote-session state is written only by
\* start() before any request is accepted, and every step taken once the
\* process is connected, up to and including its exit, leaves it as it was.
\* The tool registry is a constant of the model, as it is an import never
\* assigned in the code.
C23_RequestsKeepSharedState ==
    [][/\ HandlesRequest => UNCHANGED <<tsdav, env>>
       /\ pc \in {"connected", "exited"} => UNCHANGED tsdav
       /\ tsdav' # tsdav => (nextId = 0 /\ pc \in {"start", "awaitInit"})]_vars

\* with the remote session initialized, one call failed and one named an
\* unknown tool, and the session is as start() left it
C23_Witness ==
    /\ pc = "connected"
    /\ tsdav = [initialized |-> TRUE, mode |-> "OAuth", attempt |-> "OAuth", failed |-> FALSE]
    /\ \E i, j \in 1..Len(responses) :
          /\ responses[i].how = "thrown"
          /\ ~Registered(responses[i].tool)
          /\ responses[j].how = "returned"
          /\ responses[j].kind = "error"

\* C24: every lifecycle event carries the transport label "stdio" and the
\* request identifier generated for its invocation; an identifier belongs to
\* one invocation only: at most one start event, one in-flight call and one
\* completion carry it, all events carrying it name the same tool and
\* arguments, and a terminal event carries the identifier of a start event
\* recorded before it.
C24_FreshRequestId ==
    /\ \A k \in 1..Len(events) :
          /\ events[k].transport = "stdio"
          /\ events[k].requestId \in 1..nextId
          /\ events[k].kind \in Terminal =>
                \E j \in 1..(k - 1) :
                    /\ events[j].kind = "start"
                    /\ events[j].requestId = events[k].requestId
                    /\ events[j].tool = events[k].tool
                    /\ events[j].args = events[k].args
          /\ \A j \in 1..(k - 1) :
                events[j].requestId = events[k].requestId =>
                    /\ events[j].kind # events[k].kind
                    /\ events[j].tool = events[k].tool
    /\ \A c, d \in inflight : c.id = d.id => c = d
    /\ \A i \in 1..Len(responses) :
          /\ \A j \in 1..(i - 1) : responses[j].requestId # responses[i].requestId
          /\ \A c \in inflight : c.id # responses[i].requestId

\* two invocations of the same tool with the same arguments have both
\* completed: their events are told apart by the request identifier alone
C24_Witness ==
    /\ Len(events) = 4
    /\ \A k \in 1..4 : events[k].tool = events[1].tool /\ events[k].args = events[1].args
    /\ events[1].kind = "start"
    /\ events[2].kind = "start"
    /\ events[3].kind \in Terminal
    /\ events[4].kind \in Terminal
    /\ events[1].requestId # events[2].requestId
    /\ events[3].requestId # events[4].requestId

\* the one mode whose complete credential set is present, when exactly one is
OnlyMode ==
    IF env.basic /\ ~env.oauth THEN "Basic"
    ELSE IF env.oauth /\ ~env.basic THEN "OAuth"
    ELSE "none"

\* C25: when the credentials of exactly one mode are present, start() goes
\* on to initialize the remote session in that mode, whatever AUTH_METHOD
\* says: past credential detection the mode taken is that mode, and the
\* initialization was not given up for credentials being missing.
C25_ModeMatchesCredentials ==
    (OnlyMode # "none" /\ pc # "start") =>
        /\ tsdav.attempt = OnlyMode
        /\ pc = "postInit" => (tsdav.initialized \/ tsdav.failed)
        /\ tsdav.initialized => tsdav.mode = OnlyMode

\* a step that completes a tools/call naming an unregistered tool
UnknownToolStep ==
    /\ Len(responses') = Len(responses) + 1
    /\ ~Registered(responses'[Len(responses')].tool)

\* C26: a tools/call naming an unregistered tool leaves nothing but its error:
\* its request identifier appears in no lifecycle event, no in-flight call, no
\* handler outcome and no precondition warning; and the step that throws the
\* error changes neither the event log, the calls in flight, the warnings, the
\* remote session nor the process state, and leaves the process connected
\* with the transport open for the next request.
C26_UnknownToolNoEffect ==
    /\ [](\A i \in 1..Len(responses) :
            ~Registered(responses[i].tool) =>
                /\ EventsOf(responses[i].requestId, {"start", "success", "failure"}) = {}
                /\ \A c \in inflight : c.id # responses[i].requestId
                /\ OutcomesOf(responses[i].requestId) = {}
                /\ responses[i].requestId \notin warnings)
    /\ [][UnknownToolStep =>
            /\ UNCHANGED <<events, inflight, settled, warnings, tsdav, pc, transport,
                           handlers, exits, shutdowns, triggers, closeCalls,
                           cleanupInterval, catalogues>>
            /\ Accepting'
            /\ responses'[Len(responses')].how = "thrown"]_vars

\* after a call naming an unknown tool, the next call was accepted and is in
\* flight
C26_Witness ==
    /\ Len(responses) = 1
    /\ responses[1].tool = "nonexistent_tool"
    /\ responses[1].requestId = 1
    /\ \E c \in inflight : c.id = 2
    /\ Len(events) = 1
    /\ Accepting

====
